---- MODULE Spec2Model ----
(***************************************************************************)
(* Model of cmd/main.go: the book catalogue's REST handlers and seed       *)
(* routine over one MongoDB collection.                                    *)
(*                                                                         *)
(* The collection is a sequence of BSON documents in natural (insertion)   *)
(* order; FindOne, UpdateOne and DeleteOne act on the first document that  *)
(* matches their filter.  A document is a function from BSON field names   *)
(* to values.  Three representations of a book are kept apart, as in the   *)
(* code: the JSON object on the wire, the Go struct BookStore, and the     *)
(* stored BSON document (field names = lower-cased struct field names).    *)
(*                                                                         *)
(* Store round trips are modelled as succeeding: the branches that answer  *)
(* a driver/transport error (lines 323-327, 330-333, 379-382, 405-408) are *)
(* not taken.                                                              *)
(***************************************************************************)
EXTENDS Naturals, Sequences, FiniteSets, TLC

VARIABLES
    store,     \* the collection: sequence of BSON documents, natural order
    nextOid,   \* next fresh ObjectID (primitive.NewObjectID / driver-assigned)
    running,   \* FALSE after log.Fatal in prepareData
    steps,     \* number of handler steps taken so far
    op,        \* sequential runs: the request handled last
    resp,      \* sequential runs: the response to op
    pc,        \* concurrent runs: where each in-flight handler stands
    req,       \* concurrent runs: each client's current/last request
    local,     \* concurrent runs: the handler's bound BookStore struct
    rsp        \* concurrent runs: each client's last response

vars == <<store, nextOid, running, steps, op, resp, pc, req, local, rsp>>

seqVars == <<op, resp>>
concVars == <<pc, req, local, rsp>>

-----------------------------------------------------------------------------
(* Bounds of the exploration *)

MaxSteps == 3
MaxConcSteps == 6

Clients == {1, 2}

-----------------------------------------------------------------------------
(* HTTP status codes used by the handlers *)

StatusOK == 200
StatusCreated == 201
StatusBadRequest == 400
StatusNotFound == 404
StatusConflict == 409
StatusInternalServerError == 500

(* The zero ObjectID: BookStore.MongoID before one is assigned *)
NilObjectID == 0

-----------------------------------------------------------------------------
(* type BookStore struct, its JSON and BSON forms *)

BookStore(mongoID, id, name, author, edition, pages, year) ==
    [MongoID |-> mongoID, ID |-> id, BookName |-> name, BookAuthor |-> author,
     BookEdition |-> edition, BookPages |-> pages, BookYear |-> year]

(* A JSON or BSON object is a function on its keys; an absent key reads as
   the Go zero value. *)
Field(obj, k, zero) == IF k \in DOMAIN obj THEN obj[k] ELSE zero

(* c.Bind(book): JSON object -> struct, by the json tags.  A client-sent
   mongo_id is overwritten by the handler right after. *)
Bind(body) ==
    BookStore(NilObjectID, Field(body, "id", ""), Field(body, "title", ""),
              Field(body, "author", ""), Field(body, "edition", ""),
              Field(body, "pages", ""), Field(body, "year", ""))

(* bson.Marshal of a BookStore: _id has omitempty, the other fields have no
   bson tag and so take the lower-cased field name. *)
Marshal(book) ==
    LET d == [id |-> book.ID, bookname |-> book.BookName,
              bookauthor |-> book.BookAuthor, bookedition |-> book.BookEdition,
              bookpages |-> book.BookPages, bookyear |-> book.BookYear]
    IN  IF book.MongoID = NilObjectID THEN d ELSE ("_id" :> book.MongoID) @@ d

(* Decode(&BookStore): BSON document -> struct; unknown keys are dropped. *)
Decode(doc) ==
    BookStore(Field(doc, "_id", NilObjectID), Field(doc, "id", ""),
              Field(doc, "bookname", ""), Field(doc, "bookauthor", ""),
              Field(doc, "bookedition", ""), Field(doc, "bookpages", ""),
              Field(doc, "bookyear", ""))

(* c.JSON(status, book): struct -> JSON object, by the json tags. *)
ToJSON(book) ==
    [mongo_id |-> book.MongoID, id |-> book.ID, title |-> book.BookName,
     author |-> book.BookAuthor, edition |-> book.BookEdition,
     pages |-> book.BookPages, year |-> book.BookYear]

-----------------------------------------------------------------------------
(* The collection's operations (mongo.Collection) *)

Matches(doc, filter) ==
    \A k \in DOMAIN filter : k \in DOMAIN doc /\ doc[k] = filter[k]

Find(st, filter) == SelectSeq(st, LAMBDA d : Matches(d, filter))

FirstMatch(st, filter) ==
    LET I == {i \in 1..Len(st) : Matches(st[i], filter)}
    IN  IF I = {} THEN 0 ELSE CHOOSE i \in I : \A j \in I : i <= j

(* FindOne(...).Decode: <<>> stands for mongo.ErrNoDocuments *)
FindOne(st, filter) ==
    LET i == FirstMatch(st, filter)
    IN  IF i = 0 THEN <<>> ELSE <<st[i]>>

(* InsertOne: a document without _id gets a fresh one *)
InsertOne(st, doc, fresh) ==
    IF "_id" \in DOMAIN doc THEN Append(st, doc)
    ELSE Append(st, ("_id" :> fresh) @@ doc)

(* UpdateOne(filter, {"$set": set}) *)
UpdateOne(st, filter, set) ==
    LET i == FirstMatch(st, filter)
    IN  IF i = 0 THEN [store |-> st, MatchedCount |-> 0]
        ELSE [store |-> [st EXCEPT ![i] = set @@ st[i]], MatchedCount |-> 1]

DeleteOne(st, filter) ==
    LET i == FirstMatch(st, filter)
    IN  IF i = 0 THEN [store |-> st, DeletedCount |-> 0]
        ELSE [store |-> SubSeq(st, 1, i - 1) \o SubSeq(st, i + 1, Len(st)),
              DeletedCount |-> 1]

-----------------------------------------------------------------------------
(* prepareData: the seed routine.  The first author's name is written in
   ASCII here; the strings are only ever compared for equality. *)

startData ==
    << BookStore(NilObjectID, "example1", "The Vortex", "Jose Eustasio Rivera",
                 "958-30-0804-4", "292", "1924"),
       BookStore(NilObjectID, "example2", "Frankenstein", "Mary Shelley",
                 "978-3-649-64609-9", "280", "1818"),
       BookStore(NilObjectID, "example3", "The Black Cat", "Edgar Allan Poe",
                 "978-3-99168-238-7", "280", "1843") >>

(* variant: the loop inserts unless it finds several matches *)
SeedBranchInsertAlways(n) ==
    IF n > 1 THEN "fatal" ELSE "insert"

(* what the loop body does with len(results) = n *)
SeedBranch(n) ==
    IF n > 1 THEN "fatal" ELSE IF n = 0 THEN "insert" ELSE "keep"

RECURSIVE SeedFrom(_, _, _)
SeedFrom(st, ctr, i) ==
    IF i > Len(startData) THEN [store |-> st, nextOid |-> ctr, fatal |-> FALSE]
    ELSE LET book == startData[i]
             results == Find(st, Marshal(book))
             branch == SeedBranch(Len(results))
         IN  IF branch = "fatal"
             THEN [store |-> st, nextOid |-> ctr, fatal |-> TRUE]
             ELSE IF branch = "insert"
             THEN SeedFrom(InsertOne(st, Marshal(book), ctr), ctr + 1, i + 1)
             ELSE SeedFrom(st, ctr, i + 1)

prepareData(st, ctr) == SeedFrom(st, ctr, 1)

-----------------------------------------------------------------------------
(* Responses *)

Response(status, body) == [status |-> status, body |-> body]

NoResponse == Response(0, <<>>)

(* findAllBooks: every document as a wire map (no mongo_id) *)
findAllBooks(st) ==
    [i \in 1..Len(st) |->
        LET res == Decode(st[i])
        IN  [id |-> res.ID, title |-> res.BookName, author |-> res.BookAuthor,
             pages |-> res.BookPages, edition |-> res.BookEdition,
             year |-> res.BookYear]]

-----------------------------------------------------------------------------
(* POST /api/books *)

(* variant: the lookup filters on the struct's field name, not the BSON one *)
PostLookupStructName(st, book) == FindOne(st, [ID |-> book.ID])

(* the existence check: FindOne by the custom id *)
PostLookup(st, book) == FindOne(st, [id |-> book.ID])

(* Lines 301-327: bind, assign the ObjectID, validate, look the id up.
   done = TRUE when the handler has answered. *)
PostCheck(st, ctr, body, wellformed) ==
    IF ~wellformed
    THEN [done |-> TRUE, resp |-> Response(StatusBadRequest, <<>>),
          book |-> Bind(<<>>), nextOid |-> ctr]
    ELSE LET book == [Bind(body) EXCEPT !.MongoID = ctr]
         IN  IF book.ID = ""
             THEN [done |-> TRUE,
                   resp |-> Response(StatusInternalServerError, <<>>),
                   book |-> book, nextOid |-> ctr + 1]
             ELSE IF PostLookup(st, book) # <<>>
             THEN [done |-> TRUE, resp |-> Response(StatusConflict, <<>>),
                   book |-> book, nextOid |-> ctr + 1]
             ELSE [done |-> FALSE, resp |-> NoResponse,
                   book |-> book, nextOid |-> ctr + 1]

(* variant: the insert is guarded by a second existence check *)
PostInsertIfAbsent(st, book) ==
    IF FindOne(st, [id |-> book.ID]) # <<>>
    THEN [store |-> st, resp |-> Response(StatusConflict, <<>>)]
    ELSE [store |-> InsertOne(st, Marshal(book), NilObjectID),
          resp |-> Response(StatusCreated, <<ToJSON(book)>>)]

(* Lines 329-338: insert and answer 201 with the bound struct *)
PostInsert(st, book) ==
    [store |-> InsertOne(st, Marshal(book), NilObjectID),
     resp |-> Response(StatusCreated, <<ToJSON(book)>>)]

-----------------------------------------------------------------------------
(* PUT /api/books/:id *)

(* variant: $set is keyed by the JSON names *)
UpdateKeyWire ==
    [title |-> "title", author |-> "author", edition |-> "edition",
     pages |-> "pages", year |-> "year"]

(* recognised JSON key -> BSON field name set by $set (lines 355-369) *)
UpdateKey ==
    [title |-> "bookname", author |-> "bookauthor", edition |-> "bookedition",
     pages |-> "bookpages", year |-> "bookyear"]

(* requestPayload[k].(string): the key is present and holds a JSON string *)
IsString(payload, k) == k \in DOMAIN payload /\ payload[k].type = "string"

BuildUpdateSet(payload) ==
    LET S == {k \in DOMAIN UpdateKey : IsString(payload, k)}
    IN  [b \in {UpdateKey[k] : k \in S} |->
            payload[CHOOSE k \in S : UpdateKey[k] = b].val]

(* variant: the empty-update test is missing *)
NoValidFieldsNever(updateSet) == FALSE

(* len(updateSet) == 0 *)
NoValidFields(updateSet) == DOMAIN updateSet = {}

(* variant: the update is an upsert *)
UpdateOneUpsert(st, filter, set) ==
    LET r == UpdateOne(st, filter, set)
    IN  IF r.MatchedCount = 0
        THEN [store |-> Append(st, set @@ filter), MatchedCount |-> 0]
        ELSE r

(* the handler's write: coll.UpdateOne(ctx, filter, {"$set": updateSet}) *)
PutWrite(st, filter, updateSet) == UpdateOne(st, filter, updateSet)

(* Lines 342-386: bind, build $set, validate, UpdateOne, 404 on no match *)
PutUpdate(st, idParam, payload, wellformed) ==
    IF ~wellformed
    THEN [done |-> TRUE, resp |-> Response(StatusBadRequest, <<>>), store |-> st]
    ELSE LET updateSet == BuildUpdateSet(payload)
         IN  IF NoValidFields(updateSet)
             THEN [done |-> TRUE, resp |-> Response(StatusBadRequest, <<>>),
                   store |-> st]
             ELSE LET r == PutWrite(st, [id |-> idParam], updateSet)
                  IN  IF r.MatchedCount = 0
                      THEN [done |-> TRUE,
                            resp |-> Response(StatusNotFound, <<>>),
                            store |-> r.store]
                      ELSE [done |-> FALSE, resp |-> NoResponse,
                            store |-> r.store]

(* variant: a read-back that finds nothing is answered 404 *)
PutReadBackNotFound(st, idParam) ==
    LET found == FindOne(st, [id |-> idParam])
    IN  IF found = <<>> THEN Response(StatusNotFound, <<>>)
        ELSE Response(StatusOK, <<ToJSON(Decode(found[1]))>>)

(* Lines 388-397: re-fetch the document and answer with it *)
PutReadBack(st, idParam) ==
    LET found == FindOne(st, [id |-> idParam])
    IN  IF found = <<>> THEN Response(StatusInternalServerError, <<>>)
        ELSE Response(StatusOK, <<ToJSON(Decode(found[1]))>>)

-----------------------------------------------------------------------------
(* DELETE /api/books/:id, lines 399-415 *)

(* variant: DeletedCount is not looked at *)
DeleteHandlerNoCheck(st, idParam) ==
    [store |-> DeleteOne(st, [id |-> idParam]).store,
     resp |-> Response(StatusOK, <<>>)]

DeleteHandler(st, idParam) ==
    LET r == DeleteOne(st, [id |-> idParam])
    IN  IF r.DeletedCount = 0
        THEN [store |-> r.store, resp |-> Response(StatusNotFound, <<>>)]
        ELSE [store |-> r.store, resp |-> Response(StatusOK, <<>>)]

-----------------------------------------------------------------------------
(* Requests and the inputs they are drawn from *)

Request(kind, id, wellformed, body) ==
    [kind |-> kind, id |-> id, wellformed |-> wellformed, body |-> body]

EmptyObject == [k \in {} |-> ""]

StartupRequest == Request("STARTUP", "", TRUE, EmptyObject)

JsonString(s) == [type |-> "string", val |-> s]
JsonNumber(s) == [type |-> "number", val |-> s]

BookBody(id, v) ==
    [id |-> id, title |-> v, author |-> v, edition |-> v, pages |-> v,
     year |-> v]

Ids == {"example1", "b1"}

PostBodies ==
    {BookBody(id, v) : id \in Ids \cup {""}, v \in {"P", "Q"}}
        \cup {[title |-> "P"]}

(* any subset of the recognised keys with string values, where pages may
   instead be a number, with or without an unrecognised key *)
RecognisedPayloads ==
    {[k \in S |-> IF k = "pages" /\ num THEN JsonNumber("292")
                  ELSE JsonString("N")] :
        S \in SUBSET DOMAIN UpdateKey, num \in BOOLEAN}

Payloads ==
    RecognisedPayloads
        \cup {[publisher |-> JsonString("X")],
              [publisher |-> JsonString("X"), title |-> JsonString("N")],
              [publisher |-> JsonString("X"), pages |-> JsonNumber("292")]}

ConcPostBodies == {BookBody(id, "P") : id \in Ids}

ConcPayloads == {[title |-> JsonString("N")], [publisher |-> JsonString("N")]}

-----------------------------------------------------------------------------
(* Initial state: main has connected, created the collection and seeded it *)

Init ==
    /\ store = prepareData(<<>>, 1).store
    /\ nextOid = prepareData(<<>>, 1).nextOid
    /\ running = TRUE
    /\ steps = 0
    /\ op = StartupRequest
    /\ resp = NoResponse
    /\ pc = [c \in Clients |-> "idle"]
    /\ req = [c \in Clients |-> StartupRequest]
    /\ local = [c \in Clients |-> Bind(EmptyObject)]
    /\ rsp = [c \in Clients |-> NoResponse]

-----------------------------------------------------------------------------
(* Sequential runs: every handler runs start to finish *)

(* The process is restarted: main runs prepareData on the persisted
   collection before serving. *)
Startup ==
    /\ steps < MaxSteps
    /\ LET s == prepareData(store, nextOid)
       IN  /\ store' = s.store
           /\ nextOid' = s.nextOid
           /\ running' = ~s.fatal
    /\ steps' = steps + 1
    /\ op' = StartupRequest
    /\ resp' = NoResponse
    /\ UNCHANGED concVars

ApiGetBooks ==
    /\ running /\ steps < MaxSteps
    /\ op' = Request("GET", "", TRUE, EmptyObject)
    /\ resp' = Response(StatusOK, findAllBooks(store))
    /\ steps' = steps + 1
    /\ UNCHANGED <<store, nextOid, running>>
    /\ UNCHANGED concVars

ApiPostBook(body, wellformed) ==
    /\ running /\ steps < MaxSteps
    /\ LET chk == PostCheck(store, nextOid, body, wellformed)
           ins == PostInsert(store, chk.book)
       IN  /\ nextOid' = chk.nextOid
           /\ store' = IF chk.done THEN store ELSE ins.store
           /\ resp' = IF chk.done THEN chk.resp ELSE ins.resp
    /\ op' = Request("POST", "", wellformed, body)
    /\ steps' = steps + 1
    /\ UNCHANGED running
    /\ UNCHANGED concVars

ApiPutBook(idParam, payload, wellformed) ==
    /\ running /\ steps < MaxSteps
    /\ LET upd == PutUpdate(store, idParam, payload, wellformed)
       IN  /\ store' = upd.store
           /\ resp' = IF upd.done THEN upd.resp
                      ELSE PutReadBack(upd.store, idParam)
    /\ op' = Request("PUT", idParam, wellformed, payload)
    /\ steps' = steps + 1
    /\ UNCHANGED <<nextOid, running>>
    /\ UNCHANGED concVars

ApiDeleteBook(idParam) ==
    /\ running /\ steps < MaxSteps
    /\ LET del == DeleteHandler(store, idParam)
       IN  /\ store' = del.store
           /\ resp' = del.resp
    /\ op' = Request("DELETE", idParam, TRUE, EmptyObject)
    /\ steps' = steps + 1
    /\ UNCHANGED <<nextOid, running>>
    /\ UNCHANGED concVars

Next ==
    \/ Startup
    \/ ApiGetBooks
    \/ \E body \in PostBodies : ApiPostBook(body, TRUE)
    \/ ApiPostBook(EmptyObject, FALSE)
    \/ \E id \in Ids, payload \in Payloads : ApiPutBook(id, payload, TRUE)
    \/ \E id \in Ids : ApiPutBook(id, EmptyObject, FALSE)
    \/ \E id \in Ids : ApiDeleteBook(id)

Spec == Init /\ [][Next]_vars

-----------------------------------------------------------------------------
(* Concurrent runs: echo serves each request on its own goroutine, so the
   handlers of the clients interleave at their store round trips. *)

Idle(c) == pc[c] = "idle" /\ running /\ steps < MaxConcSteps

(* POST up to and including the existence check *)
PostBegin(c, body, wellformed) ==
    /\ Idle(c)
    /\ LET chk == PostCheck(store, nextOid, body, wellformed)
       IN  /\ nextOid' = chk.nextOid
           /\ local' = [local EXCEPT ![c] = chk.book]
           /\ rsp' = [rsp EXCEPT ![c] = chk.resp]
           /\ pc' = [pc EXCEPT ![c] = IF chk.done THEN "idle" ELSE "post_insert"]
    /\ req' = [req EXCEPT ![c] = Request("POST", "", wellformed, body)]
    /\ steps' = steps + 1
    /\ UNCHANGED <<store, running>>
    /\ UNCHANGED seqVars

(* POST: the insert and the 201 *)
PostFinish(c) ==
    /\ pc[c] = "post_insert" /\ steps < MaxConcSteps
    /\ LET ins == PostInsert(store, local[c])
       IN  /\ store' = ins.store
           /\ rsp' = [rsp EXCEPT ![c] = ins.resp]
    /\ pc' = [pc EXCEPT ![c] = "idle"]
    /\ steps' = steps + 1
    /\ UNCHANGED <<nextOid, running, req, local>>
    /\ UNCHANGED seqVars

(* PUT up to and including UpdateOne *)
PutBegin(c, idParam, payload, wellformed) ==
    /\ Idle(c)
    /\ LET upd == PutUpdate(store, idParam, payload, wellformed)
       IN  /\ store' = upd.store
           /\ rsp' = [rsp EXCEPT ![c] = upd.resp]
           /\ pc' = [pc EXCEPT ![c] = IF upd.done THEN "idle" ELSE "put_read"]
    /\ req' = [req EXCEPT ![c] = Request("PUT", idParam, wellformed, payload)]
    /\ steps' = steps + 1
    /\ UNCHANGED <<nextOid, running, local>>
    /\ UNCHANGED seqVars

(* PUT: the read-back and the answer *)
PutFinish(c) ==
    /\ pc[c] = "put_read" /\ steps < MaxConcSteps
    /\ rsp' = [rsp EXCEPT ![c] = PutReadBack(store, req[c].id)]
    /\ pc' = [pc EXCEPT ![c] = "idle"]
    /\ steps' = steps + 1
    /\ UNCHANGED <<store, nextOid, running, req, local>>
    /\ UNCHANGED seqVars

(* DELETE is a single round trip *)
Delete(c, idParam) ==
    /\ Idle(c)
    /\ LET del == DeleteHandler(store, idParam)
       IN  /\ store' = del.store
           /\ rsp' = [rsp EXCEPT ![c] = del.resp]
    /\ req' = [req EXCEPT ![c] = Request("DELETE", idParam, TRUE, EmptyObject)]
    /\ steps' = steps + 1
    /\ UNCHANGED <<nextOid, running, pc, local>>
    /\ UNCHANGED seqVars

ConcNext ==
    \/ \E c \in Clients, body \in ConcPostBodies : PostBegin(c, body, TRUE)
    \/ \E c \in Clients : PostFinish(c)
    \/ \E c \in Clients, id \in Ids, payload \in ConcPayloads :
          PutBegin(c, id, payload, TRUE)
    \/ \E c \in Clients : PutFinish(c)
    \/ \E c \in Clients, id \in Ids : Delete(c, id)

ConcSpec == Init /\ [][ConcNext]_vars

-----------------------------------------------------------------------------
(* Vocabulary of the properties *)

ById(id) == [id |-> id]

(* the stored attributes of a document, seen as the code reads them back,
   without the ObjectID *)
Attributes(doc) == [Decode(doc) EXCEPT !.MongoID = NilObjectID]

(* the collection holds exactly one document with book's id, and it carries
   book's field values *)
HoldsExactly(st, book) ==
    LET found == Find(st, ById(book.ID))
    IN  Len(found) = 1 /\ Attributes(found[1]) = book

RecognisedKeys(payload) == DOMAIN payload \cap DOMAIN UpdateKey

AllStrings(payload) == \A k \in RecognisedKeys(payload) : IsString(payload, k)

IsPost(r) == r.kind = "POST" /\ r.wellformed
IsPut(r) == r.kind = "PUT" /\ r.wellformed

(* every fixture of startData has a stored document equal to it *)
Seeded(st) ==
    \A i \in 1..Len(startData) : Find(st, Marshal(startData[i])) # <<>>

-----------------------------------------------------------------------------
(* C1: a well-formed POST whose id is empty or absent is answered 400 and
   inserts nothing.  The code answers 500 (line 315). *)
C1_EmptyIdIs400 ==
    [][(IsPost(op') /\ Bind(op'.body).ID = "")
          => (resp'.status = StatusBadRequest /\ store' = store)]_vars

(* C2 as stated: of any two consecutive POSTs with the same non-empty id the
   first is answered 201, the second 409, and the collection ends with
   exactly one document of that id, carrying the first request's values. *)
C2_AnyTwoPosts ==
    [][(IsPost(op) /\ IsPost(op') /\ Bind(op.body).ID # ""
          /\ Bind(op'.body).ID = Bind(op.body).ID)
          => (/\ resp.status = StatusCreated
              /\ resp'.status = StatusConflict
              /\ HoldsExactly(store', Bind(op.body)))]_vars

(* C2 amended: a POST with a non-empty id that no document carries is
   answered 201 and appends exactly that book; a POST with the same id that
   directly follows a POST answered 201 is answered 409, changes nothing,
   and the collection holds exactly one document of that id, with the first
   request's values. *)
C2_FreshThenDuplicate ==
    [][/\ (IsPost(op') /\ Bind(op'.body).ID # ""
             /\ Find(store, ById(Bind(op'.body).ID)) = <<>>)
          => (/\ resp'.status = StatusCreated
              /\ Len(store') = Len(store) + 1
              /\ SubSeq(store', 1, Len(store)) = store
              /\ HoldsExactly(store', Bind(op'.body))
              /\ resp'.body = <<ToJSON(Decode(store'[Len(store')]))>>)
       /\ (IsPost(op) /\ resp.status = StatusCreated /\ IsPost(op')
             /\ Bind(op'.body).ID = Bind(op.body).ID)
          => (/\ resp'.status = StatusConflict
              /\ store' = store
              /\ HoldsExactly(store', Bind(op.body)))]_vars

C2_Witness ==
    /\ steps = 2
    /\ op = Request("POST", "", TRUE, BookBody("b1", "P"))
    /\ resp.status = StatusConflict
    /\ HoldsExactly(store, Bind(BookBody("b1", "Q")))

(* C3 as stated: a PUT whose body has at least one recognised key, to an id
   without a document, is answered 404 and leaves the collection as it was. *)
C3_RecognisedKeyMissingId ==
    [][(IsPut(op') /\ RecognisedKeys(op'.body) # {}
          /\ Find(store, ById(op'.id)) = <<>>)
          => (resp'.status = StatusNotFound /\ store' = store)]_vars

(* C3 amended: a PUT whose body has at least one recognised key holding a
   string, to an id without a document, is answered 404 and leaves the
   collection as it was. *)
C3_StringFieldMissingId ==
    [][(IsPut(op') /\ (\E k \in DOMAIN UpdateKey : IsString(op'.body, k))
          /\ Find(store, ById(op'.id)) = <<>>)
          => (resp'.status = StatusNotFound /\ store' = store)]_vars

C3_Witness ==
    /\ IsPut(op)
    /\ \E k \in DOMAIN UpdateKey : IsString(op.body, k)
    /\ Find(store, ById(op.id)) = <<>>
    /\ resp.status = StatusNotFound

(* C4: a PUT to an existing id whose recognised keys are exactly a non-empty
   set S, all holding strings, sets exactly the attributes in S of the
   addressed document; its other attributes, its id and ObjectID, every
   other document and the document count stay, and the 200 body is the
   document with the new values. *)
C4_PutSetsExactlyS ==
    [][(IsPut(op') /\ RecognisedKeys(op'.body) # {} /\ AllStrings(op'.body)
          /\ FirstMatch(store, ById(op'.id)) # 0)
          => \A i \in {FirstMatch(store, ById(op'.id))} :
             \A old \in {ToJSON(Decode(store[i]))} :
             \A new \in {ToJSON(Decode(store'[i]))} :
                 /\ resp'.status = StatusOK
                 /\ Len(store') = Len(store)
                 /\ \A j \in 1..Len(store) : j # i => store'[j] = store[j]
                 /\ DOMAIN store'[i] = DOMAIN store[i]
                 /\ \A k \in DOMAIN old :
                       new[k] = IF k \in RecognisedKeys(op'.body)
                                THEN op'.body[k].val ELSE old[k]
                 /\ resp'.body = <<new>>]_vars

C4_Witness ==
    /\ IsPut(op)
    /\ op.id = "example1"
    /\ RecognisedKeys(op.body) = {"author", "year"}
    /\ AllStrings(op.body)
    /\ resp.status = StatusOK
    /\ resp.body[1].author = "N" /\ resp.body[1].year = "N"
    /\ resp.body[1].title = "The Vortex"
    /\ Len(Find(store, ById("example1"))) = 2

(* C5: a PUT whose body has none of the recognised keys is answered 400 and
   writes nothing, whether or not the id has a document. *)
C5_NoRecognisedKeyIs400 ==
    [][(IsPut(op') /\ RecognisedKeys(op'.body) = {})
          => (resp'.status = StatusBadRequest /\ store' = store)]_vars

C5_Witness ==
    /\ IsPut(op)
    /\ op.body = [publisher |-> JsonString("X")]
    /\ Find(store, ById(op.id)) = <<>>
    /\ resp.status = StatusBadRequest

(* C6: a DELETE of an id that has exactly one document is answered 200 and
   removes that document only, after which a lookup of the id finds nothing;
   a second DELETE of the id directly after it is answered 404 and changes
   nothing. *)
C6_DeleteThenGone ==
    [][/\ (op'.kind = "DELETE" /\ Len(Find(store, ById(op'.id))) = 1)
          => LET i == FirstMatch(store, ById(op'.id))
             IN  /\ resp' = Response(StatusOK, <<>>)
                 /\ FindOne(store', ById(op'.id)) = <<>>
                 /\ store' = SelectSeq(store, LAMBDA d : d # store[i])
       /\ (op.kind = "DELETE" /\ resp.status = StatusOK
             /\ FindOne(store, ById(op.id)) = <<>>
             /\ op'.kind = "DELETE" /\ op'.id = op.id)
          => (resp'.status = StatusNotFound /\ store' = store)]_vars

C6_Witness ==
    /\ steps = 2
    /\ op.kind = "DELETE" /\ op.id = "example1"
    /\ resp.status = StatusNotFound
    /\ Len(store) = Len(startData) - 1

(* C7: the seed routine run on a collection that holds every fixture
   unmodified inserts nothing: the collection is the same afterwards. *)
C7_SeedIdempotent ==
    [][(op'.kind = "STARTUP" /\ Seeded(store)) => store' = store]_vars

C7_Witness ==
    /\ op.kind = "STARTUP" /\ steps = 2
    /\ Seeded(store)
    /\ Len(store) = Len(startData) + 1

(* C10: without interleaving, no two documents of the collection share an
   id.  A PUT that edits a fixture's document followed by a restart breaks
   it: the seed routine matches by all fields and inserts the fixture again. *)
C10_UniqueIds ==
    \A i, j \in 1..Len(store) : i # j => store[i].id # store[j].id

-----------------------------------------------------------------------------
(* C8: once a POST has passed its existence check, its insert is
   unconditional: a handler that reaches the insert while a document with
   its id is already stored (a concurrent create got there first) inserts
   all the same and answers 201, so the collection then holds at least two
   documents of that id. *)
C8_InsertAfterCheckUnconditional ==
    [][\A c \in Clients :
          (pc[c] = "post_insert" /\ pc'[c] = "idle"
             /\ FindOne(store, ById(local[c].ID)) # <<>>)
          => (/\ rsp'[c].status = StatusCreated
              /\ store' = Append(store, Marshal(local[c]))
              /\ Len(Find(store', ById(local[c].ID))) >= 2)]_vars

(* both creates answered 201 and both their documents are stored *)
C8_Witness ==
    \E c, d \in Clients :
        /\ c # d
        /\ pc[c] = "idle" /\ pc[d] = "idle"
        /\ IsPost(req[c]) /\ IsPost(req[d])
        /\ local[c].ID = "b1" /\ local[d].ID = "b1"
        /\ rsp[c].status = StatusCreated /\ rsp[d].status = StatusCreated
        /\ Find(store, ById("b1")) = <<Marshal(local[c]), Marshal(local[d])>>

====
